---- MODULE Spec2Model ----
(***************************************************************************)
(* Vault key management and envelope encryption of aura-pass:              *)
(*   src/src/hooks/useVaultKey.ts       envelope codec, session key store  *)
(*   src/unnamed/part_001               usePasswords (record adapter)      *)
(*   src/src/contexts/SecurityContext.tsx  lock state machine, panic       *)
(*   src/src/pages/Index.tsx, src/unnamed/part_008  master password, App   *)
(*                                                                         *)
(* Strings are sequences of characters over a small alphabet.  A string    *)
(* value held in a password field is a record: kind "text" (an ordinary    *)
(* string, s = its characters), kind "packed" (the string                  *)
(* btoa(JSON.stringify({iv, ct})), with iv and ct the base64 strings of    *)
(* the given bytes), or kind "undefined" (the JavaScript value undefined). *)
(* PBKDF2 and AES-GCM are ideal: a derived key is determined by exactly    *)
(* its derivation inputs, and a ciphertext opens only under the key and    *)
(* nonce that made it.                                                     *)
(***************************************************************************)
EXTENDS Integers, Sequences, FiniteSets, TLC

NULL == [kind |-> "null"]

(***************************************************************************)
(* Bounds of the model.                                                    *)
(***************************************************************************)
MaxLen == 2
MaxIv == 2
MaxLocal == 1
MaxCloud == 1
MaxInflight == 1
MaxTime == 80
MaxSetters == 4

(***************************************************************************)
(* Characters and their UTF-8 encoding (TextEncoder / TextDecoder).        *)
(* "e_acute" is a two-byte character, "LOCK" is the lock emoji U+1F512     *)
(* (four bytes); "l" and "w" abbreviate the ASCII tails " (locked)" and    *)
(* " (wrong key)" of the two sentinels.                                    *)
(***************************************************************************)
Chars == {"a", "b", "l", "w", "e_acute", "LOCK"}

Utf8Char(c) ==
  CASE c = "a" -> <<97>>
    [] c = "b" -> <<98>>
    [] c = "l" -> <<108>>
    [] c = "w" -> <<119>>
    [] c = "e_acute" -> <<195, 169>>
    [] c = "LOCK" -> <<240, 159, 148, 146>>

RECURSIVE TextEncode(_)
TextEncode(s) ==
  IF s = <<>> THEN <<>> ELSE Utf8Char(Head(s)) \o TextEncode(Tail(s))

\* Number of bytes of the UTF-8 sequence that starts with byte b.
Utf8Width(b) == IF b < 128 THEN 1 ELSE IF b < 224 THEN 2 ELSE IF b < 240 THEN 3 ELSE 4

RECURSIVE TextDecode(_)
TextDecode(bytes) ==
  IF bytes = <<>> THEN <<>>
  ELSE LET w == Utf8Width(Head(bytes))
           unit == SubSeq(bytes, 1, w)
           rest == SubSeq(bytes, w + 1, Len(bytes))
           hit == {c \in Chars : Utf8Char(c) = unit}
       IN  IF Len(bytes) < w \/ hit = {}
             THEN <<"U+FFFD">> \o TextDecode(Tail(bytes))
             ELSE <<CHOOSE c \in hit : TRUE>> \o TextDecode(rest)

(***************************************************************************)
(* String values.                                                          *)
(***************************************************************************)
Text(s) == [kind |-> "text", s |-> s]
Undefined == [kind |-> "undefined"]
Packed(iv, ct) == [kind |-> "packed", iv |-> iv, ct |-> ct]

LOCKED_SENTINEL == Text(<<"LOCK", "l">>)
WRONG_KEY_SENTINEL == Text(<<"LOCK", "w">>)

\* encPw.startsWith('<lock emoji>')
StartsWithLock(v) == v.kind = "text" /\ Len(v.s) > 0 /\ v.s[1] = "LOCK"

\* JavaScript truthiness of a string-or-undefined value.
Truthy(v) == v.kind # "undefined" /\ ~(v.kind = "text" /\ v.s = <<>>)

(***************************************************************************)
(* Key derivation.                                                         *)
(***************************************************************************)
PBKDF2_ITERATIONS == 200000

APP_SALT_PREFIX == <<"securevault-v1-">>

\* A variant that drops the per-scope salt label.
deriveAesKey_NoLabel(token, saltStr) ==
  [material |-> token, salt |-> APP_SALT_PREFIX,
   iterations |-> PBKDF2_ITERATIONS, usages |-> {"encrypt", "decrypt"}]

deriveAesKey(token, saltStr) ==
  [material |-> token, salt |-> APP_SALT_PREFIX \o saltStr,
   iterations |-> PBKDF2_ITERATIONS, usages |-> {"encrypt", "decrypt"}]

CloudKeyOf(userId) == deriveAesKey(<<userId>>, <<"cloud-", userId>>)
LocalKeyOf(masterPassword, userId) == deriveAesKey(masterPassword, <<"local-", userId>>)

(***************************************************************************)
(* AES-GCM, ideal: the ciphertext and tag made from (key, iv, bytes).      *)
(***************************************************************************)
AesGcmEncrypt(key, iv, bytes) == [key |-> key, iv |-> iv, bytes |-> bytes]

Ok(v) == [ok |-> TRUE, value |-> v]
Thrown == [ok |-> FALSE]

AesGcmDecrypt(key, iv, ct) ==
  IF DOMAIN ct = {"key", "iv", "bytes"} /\ ct.key = key /\ ct.iv = iv
    THEN Ok(ct.bytes) ELSE Thrown

\* Bytes that are the output of no encryption (a corrupted or forged ciphertext).
JunkBytes == [junk |-> TRUE]

\* encryptWithKey that packs a nonce other than the one it encrypted with.
encryptWithKey_OtherIv(plaintext, key, iv) ==
  Packed(iv + 1, AesGcmEncrypt(key, iv, TextEncode(plaintext.s)))

\* encryptWithKey with the nonce iv that crypto.getRandomValues returns.
encryptWithKey(plaintext, key, iv) ==
  Packed(iv, AesGcmEncrypt(key, iv, TextEncode(plaintext.s)))

decryptWithKey(bundle, key) ==
  IF bundle.kind # "packed" THEN Thrown
  ELSE LET d == AesGcmDecrypt(key, bundle.iv, bundle.ct)
       IN  IF d.ok THEN Ok(Text(TextDecode(d.value))) ELSE Thrown

isEncryptedBundle(value) == value.kind = "packed"

\* safeDecrypt without the try/catch around decryptWithKey.
safeDecrypt_NoCatch(value, key) ==
  IF ~isEncryptedBundle(value) THEN Ok(value)
  ELSE IF key = NULL THEN Ok(LOCKED_SENTINEL)
  ELSE decryptWithKey(value, key)

\* The result is Ok(string), or Thrown if the call throws.
safeDecrypt(value, key) ==
  IF ~isEncryptedBundle(value) THEN Ok(value)
  ELSE IF key = NULL THEN Ok(LOCKED_SENTINEL)
  ELSE LET d == decryptWithKey(value, key)
       IN  IF d.ok THEN d ELSE Ok(WRONG_KEY_SENTINEL)

(***************************************************************************)
(* State.                                                                  *)
(***************************************************************************)
VARIABLES
  cx,               \* the codec under test: inputs, keys, envelope, results
  user,             \* useAuth().user: a user id, or NoUser
  keys,             \* _globalState: [cloudKey, localKey]
  raced,            \* a key was published while a derivation for the other scope
                    \* was in flight (history)
  hookState,        \* the state notifySetters last passed to the setters in _setters
  setters,          \* _setters: the number of registered setters (up to MaxSetters)
  marker,           \* sessionStorage 'local_vault_unlocked' = '1'
  setupDone,        \* localStorage 'local_vault_setup_done'
  masterPwMode,     \* Index: "hidden" | "setup" | "unlock"
  localStore,       \* localStorage 'securevault_passwords': NoItem or Item(list)
  remote,           \* the remote 'passwords' table: sequence of [id, owner, password]
  localPasswords,   \* usePasswords state
  cloudPasswords,   \* usePasswords state
  localLoaded,      \* usePasswords state
  derivs,           \* key derivations in flight: [scope, key, preClear]
  loads,            \* loadLocal runs awaiting decryption: the list each will set
  persists,         \* persist runs awaiting encryption: the list each will store
  cloudLoads,       \* loadCloudPasswords runs in flight: [user, key]
  cloudOp,          \* the addPassword / updatePassword cloud write in flight, or NULL
  lastWrite,        \* the last remote insert / update: its password value, and how
                    \* the addPassword / updatePassword call that made it settled
  isLocked,         \* SecurityProvider state
  lockCause,        \* what made isLocked true: "none" | "lock" | "idle" | "panic"
  autoLockEnabled,  \* SecurityProvider state
  autoLockTimeout,  \* SecurityProvider state, minutes
  lastActivity,     \* SecurityProvider state, seconds on the clock
  now,              \* the clock, seconds
  timer,            \* the auto-lock interval and the values its checkLock closed over
  panicPc,          \* panic(): "idle" | "signOut" (awaiting signOut)
  panicLog,         \* the steps the last panic() call has attempted, and how it ended
  errorToast,       \* the error toast last raised (toast.error), or "none"
  sealKey           \* the key of the envelopes persist last stored, or NULL (history)

authVars == <<user>>
keyVars == <<keys, raced, hookState, setters, marker, setupDone, masterPwMode, derivs>>
localVars == <<localStore, localPasswords, localLoaded, loads, persists>>
cloudVars == <<remote, cloudPasswords, cloudLoads, cloudOp, lastWrite>>
lockVars ==
  <<isLocked, lockCause, autoLockEnabled, autoLockTimeout, lastActivity, now, timer>>
panicVars == <<panicPc, panicLog>>
vars == <<cx, authVars, keyVars, localVars, cloudVars, lockVars, panicVars, errorToast, sealKey>>

NoUser == "none"

\* The error toasts of the modelled handlers: LockScreen.handleUnlock raises
\* the only one.
TOAST_NONE == "none"
TOAST_INCORRECT == "Incorrect password"

Users == {"uA", "uB"}
\* Master passwords the user may type.
MasterPasswords == {<<"a">>, <<"b">>}
\* Passwords the user may type into the add / edit form.
Typed == {Text(<<"a">>), Text(<<"b">>)}
\* A password of the user's own that begins with the lock emoji.
LockLike == Text(<<"LOCK", "a">>)
IVs == 1..MaxIv

NoItem == [present |-> FALSE]
Item(list) == [present |-> TRUE, list |-> list]

Entry(id, password) == [id |-> id, password |-> password]

\* AppContent: the lock screen replaces Index while a user is signed in and locked.
IndexMounted(u, locked) == ~(u # NoUser /\ locked)

Range(f) == {f[i] : i \in DOMAIN f}

(***************************************************************************)
(* usePasswords: the local load effect and the persist effect.             *)
(***************************************************************************)
\* loadLocal: the list it passes to setLocalPasswords.
LoadResult(store, key) ==
  IF store.present
    THEN [i \in DOMAIN store.list |->
            [store.list[i] EXCEPT !.password = safeDecrypt(@, key).value]]
    ELSE <<>>

\* loadLocal awaits the crypto engine only when it decrypts an envelope.
LoadSuspends(store, key) ==
  /\ store.present
  /\ key # NULL
  /\ \E i \in DOMAIN store.list : isEncryptedBundle(store.list[i].password)

\* The test of the persist effect: whether it encrypts the value.
PersistEncrypts(encPw, localKey) ==
  localKey # NULL /\ Truthy(encPw) /\ ~StartsWithLock(encPw) /\ ~isEncryptedBundle(encPw)

\* toStore, with ivs[i] the nonce drawn for entry i.
ToStore(list, localKey, ivs) ==
  [i \in DOMAIN list |->
     IF PersistEncrypts(list[i].password, localKey)
       THEN [list[i] EXCEPT !.password = encryptWithKey(@, localKey, ivs[i])]
       ELSE list[i]]

PersistSuspends(list, localKey) ==
  \E i \in DOMAIN list : PersistEncrypts(list[i].password, localKey)

\* One run of the persist effect on sp = [store, pend]: the write happens at
\* once when nothing is awaited, and is pending otherwise.
PersistRun(sp, list, localKey, ivs) ==
  IF PersistSuspends(list, localKey)
    THEN [store |-> sp.store, pend |-> sp.pend \cup {ToStore(list, localKey, ivs)}]
    ELSE [store |-> Item(ToStore(list, localKey, ivs)), pend |-> sp.pend]

IvChoices(list) == [DOMAIN list -> IVs]

(***************************************************************************)
(* SecurityProvider: the auto-lock timer effect.                           *)
(***************************************************************************)
CHECK_INTERVAL_S == 10
SECONDS_PER_MINUTE == 60
DEFAULT_TIMEOUT_MIN == 5

\* checkLock with a strict comparison.
CheckLockDue_Strict(nowS, lastS, timeoutMin) ==
  (nowS - lastS) > timeoutMin * SECONDS_PER_MINUTE

\* checkLock: diff = (now - lastActivity) / 1000 / 60; diff >= autoLockTimeout.
CheckLockDue(nowS, lastS, timeoutMin) ==
  (nowS - lastS) >= timeoutMin * SECONDS_PER_MINUTE

\* The effect run after a change of a dependency: no interval, or a new
\* interval whose checkLock closes over lastActivity and autoLockTimeout.
TimerEffect(enabled, timeoutMin, lastS, u, locked, nowS) ==
  IF ~enabled \/ u = NoUser \/ locked THEN NULL
  ELSE [next |-> nowS + CHECK_INTERVAL_S, lastActivity |-> lastS, timeout |-> timeoutMin]

(***************************************************************************)
(* Mounting and unmounting of Index (and of its usePasswords instance).    *)
(***************************************************************************)
NoKeys == [cloudKey |-> NULL, localKey |-> NULL]

\* A setCloudKey / setLocalKey call awaiting deriveAesKey: the key it will
\* publish; preClear marks a call made before the last clearKeys (history).
CloudDerivation(u) == [scope |-> "cloud", key |-> CloudKeyOf(u), preClear |-> FALSE]
LocalDerivation(m, u) == [scope |-> "local", key |-> LocalKeyOf(m, u), preClear |-> FALSE]

InFlight(ds, scope) == Cardinality({d \in ds : d.scope = scope})

\* Bounds on the tasks in flight after the step.
WithinBounds ==
  /\ InFlight(derivs', "cloud") <= MaxInflight
  /\ InFlight(derivs', "local") <= MaxInflight
  /\ Cardinality(loads') <= MaxInflight
  /\ Cardinality(persists') <= MaxInflight
  /\ Cardinality(cloudLoads') <= MaxInflight

\* The consumers of useVaultKey that Index mounts: Index and usePasswords.
CONSUMERS == 2

Min(a, b) == IF a <= b THEN a ELSE b

\* The effects of a fresh usePasswords instance, and Index's own mount effect,
\* with user u, the key state ks and the session marker mk; ds and pend are
\* the derivations and the persist runs then in flight, regs the setters
\* registered so far.  Each new consumer starts from a copy of _globalState and
\* pushes its setter on _setters.
Mount(u, ks, ds, pend, mk, regs) ==
  /\ hookState' = ks
  /\ setters' = Min(regs + CONSUMERS, MaxSetters)
  /\ masterPwMode' = IF localStore.present /\ ~mk
                       THEN (IF setupDone THEN "unlock" ELSE "setup")
                       ELSE "hidden"
  /\ derivs' = ds \cup (IF u # NoUser THEN {CloudDerivation(u)} ELSE {})
  /\ cloudPasswords' = <<>>
  /\ cloudLoads' = IF u # NoUser /\ ks.cloudKey # NULL
                     THEN {[user |-> u, key |-> ks.cloudKey]} ELSE {}
  /\ IF LoadSuspends(localStore, ks.localKey)
       THEN /\ localPasswords' = <<>>
            /\ localLoaded' = FALSE
            /\ loads' = {LoadResult(localStore, ks.localKey)}
            /\ localStore' = localStore
            /\ persists' = pend
       ELSE /\ localPasswords' = LoadResult(localStore, ks.localKey)
            /\ localLoaded' = TRUE
            /\ loads' = {}
            /\ \E ivs \in IvChoices(localPasswords') :
                 LET sp == PersistRun([store |-> localStore, pend |-> pend],
                                      localPasswords', ks.localKey, ivs)
                 IN  localStore' = sp.store /\ persists' = sp.pend

\* Index is replaced by the lock screen: its state is discarded.
Unmount ==
  /\ masterPwMode' = "hidden"
  /\ localPasswords' = <<>>
  /\ cloudPasswords' = <<>>
  /\ localLoaded' = FALSE
  /\ loads' = {}
  /\ cloudLoads' = {}
  /\ cloudOp' = IF cloudOp = NULL THEN NULL ELSE [cloudOp EXCEPT !.live = FALSE]

(***************************************************************************)
(* Initial state: the application after its first mount in a browser that  *)
(* holds no data: loadLocal found nothing and persist stored the empty     *)
(* list.                                                                   *)
(***************************************************************************)
CodecIdle == [phase |-> "idle"]

InitApp ==
  /\ user = NoUser
  /\ keys = NoKeys
  /\ raced = FALSE
  /\ hookState = NoKeys
  /\ setters = CONSUMERS
  /\ marker = FALSE
  /\ setupDone = FALSE
  /\ masterPwMode = "hidden"
  /\ localStore = Item(<<>>)
  /\ remote = <<>>
  /\ localPasswords = <<>>
  /\ cloudPasswords = <<>>
  /\ localLoaded = TRUE
  /\ derivs = {}
  /\ loads = {}
  /\ persists = {}
  /\ cloudLoads = {}
  /\ cloudOp = NULL
  /\ lastWrite = NULL
  /\ isLocked = FALSE
  /\ lockCause = "none"
  /\ autoLockEnabled = TRUE
  /\ autoLockTimeout = DEFAULT_TIMEOUT_MIN
  /\ lastActivity = 0
  /\ now = 0
  /\ timer = NULL
  /\ panicPc = "idle"
  /\ panicLog = [steps |-> {}, end |-> "none"]
  /\ errorToast = TOAST_NONE
  /\ sealKey = NULL

Init == InitApp /\ cx = CodecIdle

(***************************************************************************)
(* Authentication (useAuth): the session of the signed-in user.            *)
(***************************************************************************)
\* A sign-in completes: usePasswords derives the cloud key (effect on user)
\* and, if a cloud key is already held, loads the cloud entries with it.
SignIn(u) ==
  /\ user = NoUser
  /\ panicPc = "idle"
  /\ user' = u
  /\ IF IndexMounted(u, isLocked)
       THEN /\ derivs' = derivs \cup {CloudDerivation(u)}
            /\ cloudLoads' = cloudLoads \cup
                 (IF keys.cloudKey # NULL THEN {[user |-> u,
                 key |-> keys.cloudKey]} ELSE {})
            /\ UNCHANGED <<masterPwMode, localVars, cloudPasswords, cloudOp>>
       ELSE Unmount /\ UNCHANGED <<derivs, localStore, persists>>
  /\ timer' = TimerEffect(autoLockEnabled, autoLockTimeout, lastActivity, u, isLocked, now)
  /\ UNCHANGED <<cx, errorToast, sealKey, keys, raced, hookState, setters, marker,
                 setupDone, remote,
                 lastWrite, isLocked, lockCause,
                 autoLockEnabled, autoLockTimeout, lastActivity, now, panicVars>>
  /\ WithinBounds

\* Header / AuthModal sign-out while unlocked; LockScreen.handleSignOut
\* (signOut, then unlock) while locked.
SignOut ==
  /\ user # NoUser
  /\ panicPc = "idle"
  /\ user' = NoUser
  /\ IF isLocked
       THEN /\ isLocked' = FALSE
            /\ lockCause' = "none"
            /\ lastActivity' = now
            /\ Mount(NoUser, keys, derivs, persists, marker, setters)
            /\ UNCHANGED <<cloudOp, errorToast>>
       ELSE /\ cloudPasswords' = <<>>
            /\ UNCHANGED errorToast
            /\ UNCHANGED <<isLocked, lockCause, lastActivity, masterPwMode, derivs,
                           localVars,
                           cloudLoads, cloudOp, hookState, setters>>
  /\ timer' = NULL
  /\ UNCHANGED <<cx, sealKey, keys, raced, marker, setupDone, remote, lastWrite,
                 autoLockEnabled, autoLockTimeout, now, panicVars>>
  /\ WithinBounds

(***************************************************************************)
(* Session key store (useVaultKey).                                        *)
(***************************************************************************)
\* setCloudKey publishing over the empty state it saw when it was called.
CloudKeyDerived_StaleSpread(d) ==
  /\ d \in derivs /\ d.scope = "cloud"
  /\ derivs' = derivs \ {d}
  /\ keys' = [NoKeys EXCEPT !.cloudKey = d.key]
  /\ raced' = (raced \/ InFlight(derivs, "local") > 0)
  /\ hookState' = keys'
  /\ IF IndexMounted(user, isLocked)
       THEN IF user # NoUser
              THEN /\ cloudLoads' = cloudLoads \cup {[user |-> user, key |-> d.key]}
                   /\ UNCHANGED cloudPasswords
              ELSE /\ cloudPasswords' = <<>>
                   /\ UNCHANGED cloudLoads
       ELSE UNCHANGED <<cloudPasswords, cloudLoads>>
  /\ UNCHANGED <<cx, errorToast, sealKey, authVars, setters, marker, setupDone,
                 masterPwMode, localVars,
                 remote, cloudOp, lastWrite, lockVars, panicVars>>
  /\ WithinBounds

\* setCloudKey after its await: publish, notify; the cloud load effect runs.
CloudKeyDerived(d) ==
  /\ d \in derivs /\ d.scope = "cloud"
  /\ derivs' = derivs \ {d}
  /\ keys' = [keys EXCEPT !.cloudKey = d.key]
  /\ raced' = (raced \/ InFlight(derivs, "local") > 0)
  /\ hookState' = keys'
  /\ IF IndexMounted(user, isLocked)
       THEN IF user # NoUser
              THEN /\ cloudLoads' = cloudLoads \cup {[user |-> user, key |-> d.key]}
                   /\ UNCHANGED cloudPasswords
              ELSE /\ cloudPasswords' = <<>>
                   /\ UNCHANGED cloudLoads
       ELSE UNCHANGED <<cloudPasswords, cloudLoads>>
  /\ UNCHANGED <<cx, errorToast, sealKey, authVars, setters, marker, setupDone,
                 masterPwMode, localVars,
                 remote, cloudOp, lastWrite, lockVars, panicVars>>
  /\ WithinBounds

\* MasterPasswordModal.handleSubmit -> Index.handleMasterPasswordSubmit, up to
\* the await of setLocalKey.
SubmitMasterPassword(m) ==
  /\ IndexMounted(user, isLocked)
  /\ masterPwMode # "hidden"
  /\ derivs' = derivs \cup
       {LocalDerivation(m, IF user # NoUser THEN user ELSE "anonymous")}
  /\ UNCHANGED <<cx, errorToast, sealKey, authVars, keys, raced, hookState, setters,
                 marker, setupDone,
                 masterPwMode, localVars,
                 cloudVars, lockVars, panicVars>>
  /\ WithinBounds

\* MasterPasswordModal onCancel, offered in unlock mode only.
CancelMasterPassword ==
  /\ IndexMounted(user, isLocked)
  /\ masterPwMode = "unlock"
  /\ masterPwMode' = "hidden"
  /\ UNCHANGED <<cx, errorToast, sealKey, authVars, keys, raced, hookState, setters,
                 marker, setupDone,
                 derivs, localVars,
                 cloudVars, lockVars, panicVars>>

\* setLocalKey after its await: publish, notify, set the marker; then the rest
\* of handleMasterPasswordSubmit.  In usePasswords the load effect and the
\* persist effect run with the new key; a load that awaits nothing completes
\* and the persist effect runs again on the list it set.
LocalKeyDerived(d) ==
  /\ d \in derivs /\ d.scope = "local"
  /\ derivs' = derivs \ {d}
  /\ keys' = [keys EXCEPT !.localKey = d.key]
  /\ raced' = (raced \/ InFlight(derivs, "cloud") > 0)
  /\ hookState' = keys'
  /\ marker' = TRUE
  /\ setupDone' = TRUE
  /\ IF IndexMounted(user, isLocked)
       THEN /\ masterPwMode' = "hidden"
            /\ \E ivs1 \in IvChoices(localPasswords) :
                 LET sp0 == [store |-> localStore, pend |-> persists]
                     sp1 == IF localLoaded
                              THEN PersistRun(sp0, localPasswords, d.key, ivs1)
                              ELSE sp0
                 IN  IF LoadSuspends(localStore, d.key)
                       THEN /\ loads' = loads \cup {LoadResult(localStore, d.key)}
                            /\ localStore' = sp1.store
                            /\ persists' = sp1.pend
                            /\ UNCHANGED <<localPasswords, localLoaded>>
                       ELSE /\ localPasswords' = LoadResult(localStore, d.key)
                            /\ localLoaded' = TRUE
                            /\ UNCHANGED loads
                            /\ \E ivs2 \in IvChoices(localPasswords') :
                                 LET sp2 == PersistRun(sp1, localPasswords', d.key, ivs2)
                                 IN  localStore' = sp2.store /\ persists' = sp2.pend
       ELSE UNCHANGED <<masterPwMode, localVars>>
  /\ UNCHANGED <<cx, errorToast, sealKey, authVars, setters, cloudVars, lockVars,
                 panicVars>>
  /\ WithinBounds

\* clearKeys() without its notifySetters() call.
ClearKeys_NoNotify ==
  /\ IndexMounted(user, isLocked)
  /\ keys # NoKeys
  /\ keys' = NoKeys
  /\ raced' = FALSE
  /\ marker' = FALSE
  /\ derivs' = {[d EXCEPT !.preClear = TRUE] : d \in derivs}
  /\ UNCHANGED <<cx, errorToast, sealKey, authVars, hookState, setters, setupDone,
                 masterPwMode, localVars, cloudVars, lockVars, panicVars>>

\* clearKeys(), which the hook hands to its consumers and no component of the
\* application calls: empty state, marker removed, notify.  In usePasswords
\* the effects on localKey run again if a local key was held, and the cloud
\* load effect if a cloud key was.
ClearKeys ==
  /\ IndexMounted(user, isLocked)
  /\ keys' = NoKeys
  /\ raced' = FALSE
  /\ hookState' = keys'
  /\ marker' = FALSE
  /\ IF keys.localKey # NULL
       THEN /\ localPasswords' = LoadResult(localStore, NULL)
            /\ localLoaded' = TRUE
            /\ UNCHANGED loads
            /\ \E ivs \in IvChoices(localPasswords') :
                 LET sp0 == [store |-> localStore, pend |-> persists]
                     sp1 == IF localLoaded
                              THEN PersistRun(sp0, localPasswords, NULL, ivs)
                              ELSE sp0
                     sp2 == PersistRun(sp1, localPasswords', NULL, ivs)
                 IN  localStore' = sp2.store /\ persists' = sp2.pend
       ELSE UNCHANGED localVars
  /\ cloudPasswords' = IF keys.cloudKey # NULL /\ user = NoUser THEN <<>> ELSE cloudPasswords
  /\ derivs' = {[d EXCEPT !.preClear = TRUE] : d \in derivs}
  /\ UNCHANGED <<cx, errorToast, sealKey, authVars, setters, setupDone, masterPwMode,
                 remote, cloudLoads, cloudOp, lastWrite, lockVars, panicVars>>

(***************************************************************************)
(* usePasswords: completion of the local load and of the persist.          *)
(***************************************************************************)
\* loadLocal after its await: setLocalPasswords, setLocalLoaded(true); the
\* persist effect runs on the new list with the key of the current render.
LoadLocalDone(l) ==
  /\ l \in loads
  /\ loads' = loads \ {l}
  /\ localPasswords' = l
  /\ localLoaded' = TRUE
  /\ \E ivs \in IvChoices(l) :
       LET sp == PersistRun([store |-> localStore, pend |-> persists], l,
                            keys.localKey, ivs)
       IN  localStore' = sp.store /\ persists' = sp.pend
  /\ UNCHANGED <<cx, errorToast, sealKey, authVars, keyVars, cloudVars, lockVars,
                 panicVars>>
  /\ WithinBounds

\* The key of the envelopes in the list t, or prev if it holds none.
SealKeyOf(t, prev) ==
  IF \E i \in DOMAIN t : isEncryptedBundle(t[i].password)
    THEN t[CHOOSE i \in DOMAIN t : isEncryptedBundle(t[i].password)].password.ct.key
    ELSE prev

\* persist after its await: localStorage.setItem(STORAGE_KEY, toStore).
PersistDone(t) ==
  /\ t \in persists
  /\ persists' = persists \ {t}
  /\ localStore' = Item(t)
  /\ sealKey' = SealKeyOf(t, sealKey)
  /\ UNCHANGED <<cx, errorToast, authVars, keyVars, localPasswords, localLoaded, loads,
                 cloudVars, lockVars, panicVars>>

(***************************************************************************)
(* usePasswords: addPassword, updatePassword, loadCloudPasswords.          *)
(***************************************************************************)
\* Ids: crypto.randomUUID() for local entries, the table's key for cloud rows.
LocalId(n) == n
CloudId(n) == 100 + n

CloudRows(u) == SelectSeq(remote, LAMBDA r : r.owner = u)

\* The local branch of addPassword: setLocalPasswords(prev => [newEntry, ...prev]),
\* then the persist effect.
AddLocal(pw) ==
  /\ localPasswords' =
       <<Entry(LocalId(Len(localPasswords) + 1), pw)>> \o localPasswords
  /\ IF localLoaded
       THEN \E ivs \in IvChoices(localPasswords') :
              LET sp == PersistRun([store |-> localStore, pend |-> persists],
                                   localPasswords', keys.localKey, ivs)
              IN  localStore' = sp.store /\ persists' = sp.pend
       ELSE UNCHANGED <<localStore, persists>>
  /\ UNCHANGED <<localLoaded, loads>>

\* addPassword up to its first await that leaves the page (the remote
\* insert), or all of it for a local entry.
AddPassword(storage, pw) ==
  /\ IndexMounted(user, isLocked)
  /\ IF storage = "cloud" /\ user # NoUser /\ keys.cloudKey # NULL
       THEN /\ cloudOp = NULL
            /\ Len(remote) < MaxCloud
            /\ \E iv \in IVs :
                 LET encryptedPassword == encryptWithKey(pw, keys.cloudKey, iv)
                 IN  /\ cloudOp' = [op |-> "add", user |-> user, key |-> keys.cloudKey,
                                    id |-> 0, value |-> encryptedPassword,
                                    entry |-> pw, live |-> TRUE]
                     /\ lastWrite' = [op |-> "insert", value |-> encryptedPassword,
                                      key |-> keys.cloudKey, result |-> "pending"]
            /\ UNCHANGED localVars
       ELSE /\ Len(localPasswords) < MaxLocal
            /\ AddLocal(pw)
            /\ UNCHANGED <<cloudOp, lastWrite>>
  /\ UNCHANGED <<cx, errorToast, sealKey, authVars, keyVars, remote, cloudPasswords,
                 cloudLoads,
                 lockVars, panicVars>>
  /\ WithinBounds

\* updatePassword, cloud branch: whether it encrypts updates.password.
CloudUpdateEncrypts(encPw) == Truthy(encPw) /\ ~StartsWithLock(encPw)

\* updatePassword(id, updates), with val = updates.password (Undefined when the
\* update carries no password, as from toggleFavorite and markAsUsed).
UpdatePassword(id, val) ==
  /\ IndexMounted(user, isLocked)
  /\ IF (\E i \in DOMAIN cloudPasswords : cloudPasswords[i].id = id)
        /\ user # NoUser /\ keys.cloudKey # NULL
       THEN /\ cloudOp = NULL
            /\ \E iv \in IVs :
                 LET encPw == IF CloudUpdateEncrypts(val)
                                THEN encryptWithKey(val, keys.cloudKey, iv)
                                ELSE val
                 IN  /\ cloudOp' = [op |-> "update", user |-> user, key |-> keys.cloudKey,
                                    id |-> id, value |-> encPw, entry |-> val,
                                    live |-> TRUE]
                     /\ lastWrite' = [op |-> "update", value |-> encPw,
                                      key |-> keys.cloudKey, result |-> "pending"]
            /\ UNCHANGED localVars
       ELSE /\ localPasswords' =
                 [i \in DOMAIN localPasswords |->
                    IF localPasswords[i].id = id /\ val # Undefined
                      THEN [localPasswords[i] EXCEPT !.password = val]
                      ELSE localPasswords[i]]
            /\ IF localLoaded
                 THEN \E ivs \in IvChoices(localPasswords') :
                        LET sp == PersistRun([store |-> localStore, pend |-> persists],
                                             localPasswords', keys.localKey, ivs)
                        IN  localStore' = sp.store /\ persists' = sp.pend
                 ELSE UNCHANGED <<localStore, persists>>
            /\ UNCHANGED <<localLoaded, loads, cloudOp, lastWrite>>
  /\ UNCHANGED <<cx, errorToast, sealKey, authVars, keyVars, remote, cloudPasswords,
                 cloudLoads,
                 lockVars, panicVars>>
  /\ WithinBounds

\* The remote store answers the insert or the update.  After a successful
\* insert, and after any update, loadCloudPasswords runs with the user and key
\* of the render that made the callback; a failed insert falls through to the
\* local branch of addPassword.  Either way the call resolves: addPassword
\* with the new entry, updatePassword with nothing.
CloudWriteDone(res) ==
  /\ cloudOp # NULL
  /\ cloudOp' = NULL
  /\ remote' =
       IF res = "error" THEN remote
       ELSE IF cloudOp.op = "add"
         THEN Append(remote, [id |-> CloudId(Len(remote) + 1),
                              owner |-> cloudOp.user, password |-> cloudOp.value])
       ELSE [i \in DOMAIN remote |->
               IF remote[i].id = cloudOp.id /\ cloudOp.value # Undefined
                 THEN [remote[i] EXCEPT !.password = cloudOp.value]
                 ELSE remote[i]]
  /\ IF ~cloudOp.live
       THEN UNCHANGED <<localVars, cloudLoads>>
       ELSE IF cloudOp.op = "add" /\ res = "error"
         THEN /\ Len(localPasswords) < MaxLocal
              /\ AddLocal(cloudOp.entry)
              /\ UNCHANGED cloudLoads
         ELSE /\ cloudLoads' = cloudLoads \cup {[user |-> cloudOp.user, key |-> cloudOp.key]}
              /\ UNCHANGED localVars
  /\ lastWrite' = [lastWrite EXCEPT !.result = "resolved"]
  /\ UNCHANGED <<cx, errorToast, sealKey, authVars, keyVars, cloudPasswords, lockVars,
                 panicVars>>
  /\ WithinBounds

\* loadCloudPasswords after its awaits: the rows of the user, each password
\* through safeDecrypt with the key the run closed over.
CloudLoadDone(l) ==
  /\ l \in cloudLoads
  /\ cloudLoads' = cloudLoads \ {l}
  /\ cloudPasswords' =
       LET rows == CloudRows(l.user)
       IN  [i \in DOMAIN rows |->
              Entry(rows[i].id, safeDecrypt(rows[i].password, l.key).value)]
  /\ UNCHANGED <<cx, errorToast, sealKey, authVars, keyVars, localVars, remote, cloudOp,
                 lastWrite,
                 lockVars, panicVars>>

(***************************************************************************)
(* SecurityProvider: lock, unlock, activity, idle check, settings.         *)
(***************************************************************************)
\* lock() that also empties the session key store.
Lock_ClearsKeys ==
  /\ user # NoUser
  /\ ~isLocked
  /\ isLocked' = TRUE
  /\ lockCause' = "lock"
  /\ Unmount
  /\ keys' = NoKeys
  /\ raced' = FALSE
  /\ hookState' = NoKeys
  /\ marker' = FALSE
  /\ UNCHANGED <<derivs, localStore, persists>>
  /\ timer' = TimerEffect(autoLockEnabled, autoLockTimeout, lastActivity, user, TRUE, now)
  /\ UNCHANGED <<cx, errorToast, sealKey, authVars, setters, setupDone, remote,
                 lastWrite, autoLockEnabled, autoLockTimeout, lastActivity, now, panicVars>>

\* lock(), from the user menu of the header.
Lock ==
  /\ user # NoUser
  /\ ~isLocked
  /\ isLocked' = TRUE
  /\ lockCause' = "lock"
  /\ Unmount
  /\ UNCHANGED <<derivs, localStore, persists>>
  /\ timer' = TimerEffect(autoLockEnabled, autoLockTimeout, lastActivity, user, TRUE, now)
  /\ UNCHANGED <<cx, errorToast, sealKey, authVars, keys, raced, hookState, setters,
                 marker, setupDone, remote,
                 lastWrite, autoLockEnabled, autoLockTimeout, lastActivity, now, panicVars>>

\* LockScreen.handleUnlock when signInWithPassword answers with an error: the
\* error toast, and nothing else.
UnlockRejected ==
  /\ user # NoUser
  /\ isLocked
  /\ errorToast' = TOAST_INCORRECT
  /\ UNCHANGED <<cx, sealKey, authVars, keyVars, localVars, cloudVars, lockVars, panicVars>>

\* handleUnlock with an unlock() that leaves lastActivity as it was.
Unlock_StaleActivity ==
  /\ user # NoUser
  /\ isLocked
  /\ isLocked' = FALSE
  /\ lockCause' = "none"
  /\ Mount(user, keys, derivs, persists, marker, setters)
  /\ timer' = TimerEffect(autoLockEnabled, autoLockTimeout, lastActivity, user, FALSE, now)
  /\ UNCHANGED <<cx, errorToast, sealKey, authVars, keys, raced, marker, setupDone,
                 remote, cloudOp, lastWrite,
                 autoLockEnabled, autoLockTimeout, lastActivity, now, panicVars>>
  /\ WithinBounds

\* LockScreen.handleUnlock when signInWithPassword answers without an error:
\* unlock().
Unlock ==
  /\ user # NoUser
  /\ isLocked
  /\ isLocked' = FALSE
  /\ lockCause' = "none"
  /\ lastActivity' = now
  /\ Mount(user, keys, derivs, persists, marker, setters)
  /\ timer' = TimerEffect(autoLockEnabled, autoLockTimeout, now, user, FALSE, now)
  /\ UNCHANGED <<cx, errorToast, sealKey, authVars, keys, raced, marker, setupDone,
                 remote, cloudOp, lastWrite,
                 autoLockEnabled, autoLockTimeout, now, panicVars>>
  /\ WithinBounds

\* An activity event that also brings the state to Unlocked.
Activity_Unlocks ==
  /\ lastActivity' = now
  /\ isLocked' = FALSE
  /\ lockCause' = "none"
  /\ timer' = TimerEffect(autoLockEnabled, autoLockTimeout, now, user, FALSE, now)
  /\ IF isLocked /\ user # NoUser
       THEN Mount(user, keys, derivs, persists, marker, setters)
       ELSE UNCHANGED <<hookState, setters, masterPwMode, derivs, localVars,
                        cloudPasswords, cloudLoads>>
  /\ UNCHANGED <<cx, errorToast, sealKey, authVars, keys, raced, marker, setupDone,
                 remote, cloudOp,
                 lastWrite, autoLockEnabled, autoLockTimeout, now, panicVars>>
  /\ WithinBounds

\* A mousemove, keydown, click or scroll event on the window.
Activity ==
  /\ lastActivity' = now
  /\ timer' = TimerEffect(autoLockEnabled, autoLockTimeout, now, user, isLocked, now)
  /\ UNCHANGED <<cx, errorToast, sealKey, authVars, keyVars, localVars, cloudVars,
                 isLocked, lockCause,
                 autoLockEnabled, autoLockTimeout, now, panicVars>>

\* The interval fires: checkLock with the values it closed over.
IdleCheck ==
  /\ timer # NULL
  /\ now = timer.next
  /\ IF CheckLockDue(now, timer.lastActivity, timer.timeout)
       THEN /\ isLocked' = TRUE
            /\ lockCause' = "idle"
            /\ timer' = NULL
            /\ Unmount
            /\ UNCHANGED <<derivs, localStore, persists>>
       ELSE /\ timer' = [timer EXCEPT !.next = now + CHECK_INTERVAL_S]
            /\ UNCHANGED <<isLocked, lockCause, masterPwMode, derivs, localVars,
                           cloudPasswords,
                           cloudLoads, cloudOp>>
  /\ UNCHANGED <<cx, errorToast, sealKey, authVars, keys, raced, hookState, setters,
                 marker, setupDone, remote,
                 lastWrite,
                 autoLockEnabled, autoLockTimeout, lastActivity, now, panicVars>>

\* setAutoLockTimeout(minutes), and the preferences row arriving from the table.
SetAutoLockTimeout(minutes) ==
  /\ autoLockTimeout' = minutes
  /\ timer' = TimerEffect(autoLockEnabled, minutes, lastActivity, user, isLocked, now)
  /\ UNCHANGED <<cx, errorToast, sealKey, authVars, keyVars, localVars, cloudVars,
                 isLocked, lockCause,
                 autoLockEnabled, lastActivity, now, panicVars>>

SetAutoLockEnabled(enabled) ==
  /\ autoLockEnabled' = enabled
  /\ timer' = TimerEffect(enabled, autoLockTimeout, lastActivity, user, isLocked, now)
  /\ UNCHANGED <<cx, errorToast, sealKey, authVars, keyVars, localVars, cloudVars,
                 isLocked, lockCause,
                 autoLockTimeout, lastActivity, now, panicVars>>

\* One second passes; an interval that is due fires first.
Tick ==
  /\ now < MaxTime
  /\ timer # NULL => now < timer.next
  /\ now' = now + 1
  /\ UNCHANGED <<cx, errorToast, sealKey, authVars, keyVars, localVars, cloudVars,
                 isLocked, lockCause,
                 autoLockEnabled, autoLockTimeout, lastActivity, timer, panicVars>>

(***************************************************************************)
(* Page reload and panic.                                                  *)
(***************************************************************************)
\* What a reload does to the page: module state and component state start
\* over, tasks in flight are gone; localStorage, sessionStorage, the remote
\* table and the session stay.  Then the application mounts for user u.
ReloadPage(u, mk) ==
  /\ keys' = NoKeys
  /\ raced' = FALSE
  /\ isLocked' = FALSE
  /\ lockCause' = "none"
  /\ autoLockEnabled' = TRUE
  /\ autoLockTimeout' = DEFAULT_TIMEOUT_MIN
  /\ lastActivity' = now
  /\ timer' = TimerEffect(TRUE, DEFAULT_TIMEOUT_MIN, now, u, FALSE, now)
  /\ cloudOp' = NULL
  /\ marker' = mk
  /\ errorToast' = TOAST_NONE
  /\ Mount(u, NoKeys, {}, {}, mk, 0)
  /\ UNCHANGED <<setupDone, remote, lastWrite, now>>

\* The user reloads the page.
PageReload ==
  /\ panicPc = "idle"
  /\ ReloadPage(user, marker)
  /\ UNCHANGED <<cx, sealKey, authVars, panicVars>>
  /\ WithinBounds

\* The tab is closed and the application opened in a new one: as a reload,
\* with an empty sessionStorage.
ReopenTab ==
  /\ panicPc = "idle"
  /\ marker
  /\ ReloadPage(user, FALSE)
  /\ UNCHANGED <<cx, sealKey, authVars, panicVars>>
  /\ WithinBounds

PanicSteps == {"lock", "clipboard", "erase", "clearKeys", "signOut", "reload"}

\* panic() up to its await: setIsLocked(true); the clipboard write, which
\* returns or throws (clip); removeItem; the call of signOut.
PanicStart(clip) ==
  /\ IndexMounted(user, isLocked)
  /\ panicPc = "idle"
  /\ isLocked' = TRUE
  /\ lockCause' = "panic"
  /\ IF user # NoUser
       THEN Unmount
       ELSE UNCHANGED <<masterPwMode, localPasswords, localLoaded, loads,
                        cloudPasswords, cloudLoads, cloudOp>>
  /\ UNCHANGED <<derivs, persists>>
  /\ timer' = NULL
  /\ IF clip = "throws"
       THEN /\ panicPc' = "idle"
            /\ panicLog' = [steps |-> {"lock", "clipboard"}, end |-> "threw"]
            /\ localStore' = localStore
            /\ sealKey' = sealKey
       ELSE /\ panicPc' = "signOut"
            /\ panicLog' = [steps |-> {"lock", "clipboard", "erase", "signOut"},
                            end |-> "running"]
            /\ localStore' = NoItem
            /\ sealKey' = NULL
  /\ UNCHANGED <<cx, errorToast, authVars, keys, raced, hookState, setters, marker,
                 setupDone, remote,
                 lastWrite,
                 autoLockEnabled, autoLockTimeout, lastActivity, now>>

\* signOut settles: resolved, panic() goes on to window.location.reload();
\* rejected, panic() rejects there.
PanicSignOutDone(res) ==
  /\ panicPc = "signOut"
  /\ panicPc' = "idle"
  /\ IF res = "ok"
       THEN /\ user' = NoUser
            /\ ReloadPage(NoUser, marker)
            /\ panicLog' = [steps |-> panicLog.steps \cup {"reload"}, end |-> "reloaded"]
       ELSE /\ panicLog' = [panicLog EXCEPT !.end = "rejected"]
            /\ UNCHANGED <<authVars, keyVars, localVars, cloudVars, lockVars, errorToast>>
  /\ UNCHANGED <<cx, sealKey>>
  /\ WithinBounds

(***************************************************************************)
(* The codec on its own: derive, encrypt, derive again, decrypt, read.     *)
(***************************************************************************)
Strings == UNION {[1..n -> Chars] : n \in 0..MaxLen}

\* (token, salt label) pairs: user ids and master passwords as tokens, the
\* cloud and local labels of setCloudKey and setLocalKey as salt labels.
DerivationInputs ==
  [token : {<<"uA">>, <<"uB">>, <<"a">>},
   salt : {<<"cloud-", "uA">>, <<"cloud-", "uB">>, <<"local-", "uA">>,
           <<"local-", "anonymous">>}]

InitCodec ==
  /\ InitApp
  /\ cx \in [phase : {"input"}, p : Strings, in1 : DerivationInputs,
             in2 : DerivationInputs]

CodecDeriveFirst ==
  /\ cx.phase = "input"
  /\ cx' = [phase |-> "keyed", p |-> cx.p, in1 |-> cx.in1, in2 |-> cx.in2,
            k1 |-> deriveAesKey(cx.in1.token, cx.in1.salt)]
  /\ UNCHANGED <<authVars, keyVars, localVars, cloudVars, lockVars, panicVars,
                 errorToast, sealKey>>

CodecEncrypt ==
  /\ cx.phase = "keyed"
  /\ \E iv \in IVs :
       cx' = [phase |-> "sealed", p |-> cx.p, in1 |-> cx.in1, in2 |-> cx.in2,
              k1 |-> cx.k1, env |-> encryptWithKey(Text(cx.p), cx.k1, iv)]
  /\ UNCHANGED <<authVars, keyVars, localVars, cloudVars, lockVars, panicVars,
                 errorToast, sealKey>>

CodecDeriveSecond ==
  /\ cx.phase = "sealed"
  /\ cx' = [phase |-> "rekeyed", p |-> cx.p, in1 |-> cx.in1, in2 |-> cx.in2,
            k1 |-> cx.k1, env |-> cx.env,
            k2 |-> deriveAesKey(cx.in2.token, cx.in2.salt)]
  /\ UNCHANGED <<authVars, keyVars, localVars, cloudVars, lockVars, panicVars,
                 errorToast, sealKey>>

CodecDecrypt ==
  /\ cx.phase = "rekeyed"
  /\ cx' = [phase |-> "opened", p |-> cx.p, in1 |-> cx.in1, in2 |-> cx.in2,
            k1 |-> cx.k1, env |-> cx.env, k2 |-> cx.k2,
            out |-> decryptWithKey(cx.env, cx.k2)]
  /\ UNCHANGED <<authVars, keyVars, localVars, cloudVars, lockVars, panicVars,
                 errorToast, sealKey>>

\* A read of a persisted field: the plaintext itself (legacy data), the
\* envelope, or an envelope-shaped string whose ciphertext is junk; with no
\* key, the first key or the second.
CodecRead ==
  /\ cx.phase = "opened"
  /\ \E v \in {Text(cx.p), cx.env, Packed(1, JunkBytes)}, k \in {NULL, cx.k1, cx.k2} :
       cx' = [phase |-> "read", p |-> cx.p, in1 |-> cx.in1, in2 |-> cx.in2,
              k1 |-> cx.k1, env |-> cx.env, k2 |-> cx.k2, out |-> cx.out,
              rv |-> v, rk |-> k, rout |-> safeDecrypt(v, k)]
  /\ UNCHANGED <<authVars, keyVars, localVars, cloudVars, lockVars, panicVars,
                 errorToast, sealKey>>

NextCodec ==
  \/ CodecDeriveFirst
  \/ CodecEncrypt
  \/ CodecDeriveSecond
  \/ CodecDecrypt
  \/ CodecRead

SpecCodec == InitCodec /\ [][NextCodec]_vars

(***************************************************************************)
(* Strings as the program holds them: sequences of UTF-16 code units.      *)
(* atob / btoa (forgiving base64), JSON.stringify and JSON.parse on a      *)
(* subset of JSON (literals, integers, strings with the escapes \" \\ \/,  *)
(* arrays, objects), and isEncryptedBundle on such strings.                *)
(***************************************************************************)
Ascii ==
  <<" ", "!", "QUOTE", "#", "$", "%", "&", "APOSTROPHE", "(", ")", "*", "+", ",", "-", ".", "/",
    "0", "1", "2", "3", "4", "5", "6", "7", "8", "9", ":", ";", "<", "=", ">", "?",
    "@", "A", "B", "C", "D", "E", "F", "G", "H", "I", "J", "K", "L", "M", "N", "O",
    "P", "Q", "R", "S", "T", "U", "V", "W", "X", "Y", "Z", "[", "BACKSLASH", "]", "^", "_",
    "BACKTICK", "a", "b", "c", "d", "e", "f", "g", "h", "i", "j", "k", "l", "m", "n", "o",
    "p", "q", "r", "s", "t", "u", "v", "w", "x", "y", "z", "{", "|", "}", "~">>

\* The code unit of a printable ASCII character; "QUOTE", "APOSTROPHE",
\* "BACKSLASH" and "BACKTICK" stand for the characters 34, 39, 92 and 96.
CodeOf(c) == 31 + CHOOSE i \in DOMAIN Ascii : Ascii[i] = c

\* A string literal of the source, as code units.
Lit(cs) == [i \in DOMAIN cs |-> CodeOf(cs[i])]

\* The code units of a character of Chars: e_acute is U+00E9, the lock emoji
\* U+1F512 is the surrogate pair D83D DD12.
CodeUnitsOfChar(c) ==
  CASE c = "e_acute" -> <<233>>
    [] c = "LOCK" -> <<55357, 56594>>
    [] OTHER -> <<CodeOf(c)>>

RECURSIVE CodeUnits(_)
CodeUnits(s) ==
  IF s = <<>> THEN <<>> ELSE CodeUnitsOfChar(Head(s)) \o CodeUnits(Tail(s))

\* The value of a base64 character, or -1.
B64Value(c) ==
  IF c >= 65 /\ c <= 90 THEN c - 65
  ELSE IF c >= 97 /\ c <= 122 THEN c - 71
  ELSE IF c >= 48 /\ c <= 57 THEN c + 4
  ELSE IF c = 43 THEN 62
  ELSE IF c = 47 THEN 63
  ELSE -1

B64Char(v) ==
  IF v < 26 THEN v + 65
  ELSE IF v < 52 THEN v + 71
  ELSE IF v < 62 THEN v - 4
  ELSE IF v = 62 THEN 43
  ELSE 47

\* btoa on bytes; 61 is the padding character.
RECURSIVE B64Encode(_)
B64Encode(bytes) ==
  IF bytes = <<>> THEN <<>>
  ELSE LET n == Len(bytes)
           b1 == bytes[1]
           b2 == IF n >= 2 THEN bytes[2] ELSE 0
           b3 == IF n >= 3 THEN bytes[3] ELSE 0
           c1 == B64Char(b1 \div 4)
           c2 == B64Char((b1 % 4) * 16 + b2 \div 16)
           c3 == B64Char((b2 % 16) * 4 + b3 \div 64)
           c4 == B64Char(b3 % 64)
       IN  IF n = 1 THEN <<c1, c2, 61, 61>>
           ELSE IF n = 2 THEN <<c1, c2, c3, 61>>
           ELSE <<c1, c2, c3, c4>> \o B64Encode(SubSeq(bytes, 4, n))

\* btoa(bin): throws on a code unit above 255.
btoa(bin) ==
  IF \E i \in DOMAIN bin : bin[i] > 255 THEN Thrown ELSE Ok(B64Encode(bin))

RECURSIVE B64Decode(_)
B64Decode(vals) ==
  LET n == Len(vals)
  IN  IF n < 2 THEN <<>>
      ELSE LET b1 == vals[1] * 4 + vals[2] \div 16
               b2 == (vals[2] % 16) * 16 + vals[3] \div 4
               b3 == (vals[3] % 4) * 64 + vals[4]
           IN  IF n = 2 THEN <<b1>>
               ELSE IF n = 3 THEN <<b1, b2>>
               ELSE <<b1, b2, b3>> \o B64Decode(SubSeq(vals, 5, n))

IsAsciiWhitespace(c) == c \in {9, 10, 12, 13, 32}

\* atob(s): ASCII whitespace is dropped, one or two trailing = (61) are dropped
\* when the length is a multiple of four; it throws when the rest has length
\* 1 modulo 4 or holds a character outside the base64 alphabet.
atob(s) ==
  LET t == SelectSeq(s, LAMBDA c : ~IsAsciiWhitespace(c))
      n == Len(t)
      u == IF n > 0 /\ n % 4 = 0 /\ t[n] = 61
             THEN (IF t[n - 1] = 61 THEN SubSeq(t, 1, n - 2) ELSE SubSeq(t, 1, n - 1))
             ELSE t
  IN  IF Len(u) % 4 = 1 \/ \E i \in DOMAIN u : B64Value(u[i]) < 0
        THEN Thrown
        ELSE Ok(B64Decode([i \in DOMAIN u |-> B64Value(u[i])]))

\* ab2b64(buf): the bytes as a binary string, through btoa.
ab2b64(bytes) == B64Encode(bytes)

\* JavaScript values as JSON.parse returns them.
\* JPrim: null, a boolean or a number, with its JSON text.
JUndefined == [t |-> "undefined"]
JPrim(t, text) == [t |-> t, text |-> text]
JStr(s) == [t |-> "string", s |-> s]
JArr(items) == [t |-> "array", items |-> items]
JObj(members) == [t |-> "object", members |-> members]
Member(key, value) == [key |-> key, value |-> value]

QUOTE == 34
BACKSLASH == 92

RECURSIVE JsonQuoteBody(_)
JsonQuoteBody(s) ==
  IF s = <<>> THEN <<>>
  ELSE (IF Head(s) \in {QUOTE, BACKSLASH} THEN <<BACKSLASH, Head(s)>> ELSE <<Head(s)>>)
         \o JsonQuoteBody(Tail(s))

JsonQuote(s) == <<QUOTE>> \o JsonQuoteBody(s) \o <<QUOTE>>

RECURSIVE JsonStringify(_)
RECURSIVE JsonJoin(_, _)
\* The texts of the values in items, separated by commas; members of an
\* object are written as "key":value.
JsonJoin(items, isObject) ==
  IF items = <<>> THEN <<>>
  ELSE LET h == Head(items)
           one == IF isObject
                    THEN JsonQuote(h.key) \o Lit(<<":">>) \o JsonStringify(h.value)
                    ELSE JsonStringify(h)
       IN  IF Len(items) = 1 THEN one
           ELSE one \o Lit(<<",">>) \o JsonJoin(Tail(items), isObject)

JsonStringify(v) ==
  CASE v.t \in {"null", "boolean", "number"} -> v.text
    [] v.t = "string" -> JsonQuote(v.s)
    [] v.t = "array" -> Lit(<<"[">>) \o JsonJoin(v.items, FALSE) \o Lit(<<"]">>)
    [] v.t = "object" -> Lit(<<"{">>) \o JsonJoin(v.members, TRUE) \o Lit(<<"}">>)

\* The result of a parsing step: a value and the next position; a step that
\* fails gives Thrown.
Parsed(v, next) == [ok |-> TRUE, value |-> v, next |-> next]

RECURSIVE SkipWs(_, _)
SkipWs(s, i) ==
  IF i <= Len(s) /\ s[i] \in {9, 10, 13, 32} THEN SkipWs(s, i + 1) ELSE i

RECURSIVE SkipDigits(_, _)
SkipDigits(s, i) ==
  IF i <= Len(s) /\ s[i] \in 48..57 THEN SkipDigits(s, i + 1) ELSE i

\* The literal lit at position i of s.
HasLiteral(s, i, lit) ==
  i + Len(lit) - 1 <= Len(s) /\ SubSeq(s, i, i + Len(lit) - 1) = lit

\* A string, from the position after its opening quote.
RECURSIVE ParseString(_, _, _)
ParseString(s, i, acc) ==
  IF i > Len(s) THEN Thrown
  ELSE IF s[i] = QUOTE THEN Parsed(JStr(acc), i + 1)
  ELSE IF s[i] = BACKSLASH
    THEN IF i + 1 <= Len(s) /\ s[i + 1] \in {QUOTE, BACKSLASH, 47}
           THEN ParseString(s, i + 2, Append(acc, s[i + 1]))
           ELSE Thrown
  ELSE IF s[i] < 32 THEN Thrown
  ELSE ParseString(s, i + 1, Append(acc, s[i]))

\* An integer: an optional minus, then 0 or a digit sequence without a
\* leading 0.
ParseNumber(s, i) ==
  LET d == IF s[i] = 45 THEN i + 1 ELSE i
      e == SkipDigits(s, d)
  IN  IF e = d \/ (s[d] = 48 /\ e > d + 1) THEN Thrown
      ELSE Parsed(JPrim("number", SubSeq(s, i, e - 1)), e)

RECURSIVE ParseValue(_, _)
RECURSIVE ParseElements(_, _, _)
RECURSIVE ParseMembers(_, _, _)

\* The elements of an array after '[' or ',': a value, then ',' or ']'.
ParseElements(s, i, acc) ==
  LET r == ParseValue(s, i)
      j == SkipWs(s, r.next)
  IN  IF ~r.ok \/ j > Len(s) THEN Thrown
      ELSE IF s[j] = 93 THEN Parsed(JArr(Append(acc, r.value)), j + 1)
      ELSE IF s[j] = 44 THEN ParseElements(s, j + 1, Append(acc, r.value))
      ELSE Thrown

\* The members of an object after '{' or ',': "key" : value, then ',' or '}'.
ParseMembers(s, i, acc) ==
  LET k == SkipWs(s, i)
      key == IF k <= Len(s) /\ s[k] = QUOTE THEN ParseString(s, k + 1, <<>>) ELSE Thrown
      c == SkipWs(s, key.next)
      r == ParseValue(s, c + 1)
      j == SkipWs(s, r.next)
      all == Append(acc, Member(key.value.s, r.value))
  IN  IF ~key.ok \/ c > Len(s) \/ s[c] # 58 THEN Thrown
      ELSE IF ~r.ok \/ j > Len(s) THEN Thrown
      ELSE IF s[j] = 125 THEN Parsed(JObj(all), j + 1)
      ELSE IF s[j] = 44 THEN ParseMembers(s, j + 1, all)
      ELSE Thrown

ParseValue(s, i) ==
  LET k == SkipWs(s, i)
      JsonWords == {JPrim("null", Lit(<<"n", "u", "l", "l">>)),
                    JPrim("boolean", Lit(<<"t", "r", "u", "e">>)),
                    JPrim("boolean", Lit(<<"f", "a", "l", "s", "e">>))}
  IN  IF k > Len(s) THEN Thrown
      ELSE IF s[k] = QUOTE THEN ParseString(s, k + 1, <<>>)
      ELSE IF s[k] = 45 \/ s[k] \in 48..57 THEN ParseNumber(s, k)
      ELSE IF \E w \in JsonWords : HasLiteral(s, k, w.text)
        THEN (LET w == CHOOSE x \in JsonWords : HasLiteral(s, k, x.text)
              IN  Parsed(w, k + Len(w.text)))
      ELSE IF s[k] = 91
        THEN (LET e == SkipWs(s, k + 1)
              IN  IF e <= Len(s) /\ s[e] = 93 THEN Parsed(JArr(<<>>), e + 1)
                  ELSE ParseElements(s, k + 1, <<>>))
      ELSE IF s[k] = 123
        THEN (LET e == SkipWs(s, k + 1)
              IN  IF e <= Len(s) /\ s[e] = 125 THEN Parsed(JObj(<<>>), e + 1)
                  ELSE ParseMembers(s, k + 1, <<>>))
      ELSE Thrown

\* JSON.parse(text): the value, or Thrown (SyntaxError).
JsonParse(text) ==
  LET r == ParseValue(text, 1)
  IN  IF r.ok /\ SkipWs(text, r.next) = Len(text) + 1 THEN Ok(r.value) ELSE Thrown

\* parsed.name: a TypeError on null, the value of the last member of that
\* name on an object, undefined otherwise.
GetProp(v, name) ==
  IF v.t = "null" THEN Thrown
  ELSE IF v.t = "object" /\ \E i \in DOMAIN v.members : v.members[i].key = name
    THEN LET last == CHOOSE i \in DOMAIN v.members :
                       /\ v.members[i].key = name
                       /\ \A j \in DOMAIN v.members : v.members[j].key = name => j <= i
         IN  Ok(v.members[last].value)
  ELSE Ok(JUndefined)

IV_NAME == Lit(<<"i", "v">>)
CT_NAME == Lit(<<"c", "t">>)

\* The body of the try block of isEncryptedBundle.
BundleTest(value) ==
  LET bin == atob(value)
      parsed == JsonParse(bin.value)
      iv == GetProp(parsed.value, IV_NAME)
      ct == GetProp(parsed.value, CT_NAME)
  IN  IF ~bin.ok \/ ~parsed.ok \/ ~iv.ok THEN Thrown
      ELSE IF iv.value.t # "string" THEN Ok(FALSE)
      ELSE IF ~ct.ok THEN Thrown
      ELSE Ok(ct.value.t = "string")

\* isEncryptedBundle that tests the 'iv' field only.
isEncryptedBundleOfString_IvOnly(value) ==
  LET bin == atob(value)
      parsed == JsonParse(bin.value)
      iv == GetProp(parsed.value, IV_NAME)
  IN  IF ~bin.ok \/ ~parsed.ok \/ ~iv.ok THEN Ok(FALSE)
      ELSE Ok(iv.value.t = "string")

\* isEncryptedBundle on a string given by its code units: Ok(boolean), or
\* Thrown if the call throws.
isEncryptedBundleOfString(value) ==
  LET r == BundleTest(value)
  IN  IF r.ok THEN r ELSE Ok(FALSE)

\* The string encryptWithKey returns for the nonce bytes and the ciphertext
\* bytes: btoa(JSON.stringify({iv: ab2b64(iv), ct: ab2b64(ciphertext)})).
PackedString(ivBytes, ctBytes) ==
  btoa(JsonStringify(JObj(<<Member(IV_NAME, JStr(ab2b64(ivBytes))),
                            Member(CT_NAME, JStr(ab2b64(ctBytes)))>>))).value

(***************************************************************************)
(* isEncryptedBundle on its own: a string is given, the function is        *)
(* applied.  The strings: plain texts, base64 of texts that are not JSON,  *)
(* base64 of JSON values with and without string fields 'iv' and 'ct',     *)
(* strings that are not base64, and outputs of encryptWithKey.             *)
(***************************************************************************)
\* Bytes: the twelve bytes crypto.getRandomValues returns for a nonce, the
\* ciphertext and tag of n plaintext bytes (any n + 16 bytes).
SampleBytes(n, c) == [i \in 1..n |-> (c + i * 13) % 256]

Probe(cls, s, abs, expect) ==
  [phase |-> "probe", cls |-> cls, s |-> s, abs |-> abs, expect |-> expect]

\* JSON values, each with whether its 'iv' and 'ct' are both strings.
JsonSamples ==
  LET JNull == JPrim("null", Lit(<<"n", "u", "l", "l">>))
      JTrue == JPrim("boolean", Lit(<<"t", "r", "u", "e">>))
      iv == Member(IV_NAME, JStr(ab2b64(<<1, 2, 3, 250>>)))
      ct == Member(CT_NAME, JStr(ab2b64(<<250>>)))
      ivNum == Member(IV_NAME, JPrim("number", Lit(<<"1", "2">>)))
      ctNull == Member(CT_NAME, JNull)
      other == Member(Lit(<<"x">>), JTrue)
  IN  {<<JNull, FALSE>>, <<JTrue, FALSE>>,
       <<JPrim("number", Lit(<<"1", "2", "3">>)), FALSE>>,
       <<JPrim("number", Lit(<<"-", "7">>)), FALSE>>, <<JStr(IV_NAME), FALSE>>,
       <<JStr(Lit(<<"a", "QUOTE", "BACKSLASH">>)), FALSE>>,
       <<JArr(<<>>), FALSE>>, <<JArr(<<JStr(IV_NAME), JStr(CT_NAME)>>), FALSE>>,
       <<JObj(<<>>), FALSE>>, <<JObj(<<iv>>), FALSE>>, <<JObj(<<ct>>), FALSE>>,
       <<JObj(<<ivNum, ct>>), FALSE>>, <<JObj(<<iv, ctNull>>), FALSE>>,
       <<JObj(<<other>>), FALSE>>, <<JObj(<<Member(Lit(<<"x">>), JObj(<<iv, ct>>))>>), FALSE>>,
       <<JObj(<<iv, ct, ctNull>>), FALSE>>, <<JArr(<<JObj(<<iv, ct>>)>>), FALSE>>,
       <<JObj(<<iv, ct>>), TRUE>>, <<JObj(<<ct, iv>>), TRUE>>,
       <<JObj(<<iv, ct, other>>), TRUE>>, <<JObj(<<ivNum, iv, ct>>), TRUE>>,
       <<JObj(<<Member(IV_NAME, JStr(<<>>)), Member(CT_NAME, JStr(<<>>))>>), TRUE>>}

\* An output of encryptWithKey for plaintext p.
BundleOf(p, iv, c) ==
  PackedString(SampleBytes(12, iv * 37), SampleBytes(Len(TextEncode(p)) + 16, c))

\* PlainTexts: plain texts beyond those over Chars, passwords that happen to
\* be in the base64 alphabet and texts with characters outside it.
\* NonJsonTexts: texts that are not JSON.
Probes ==
  LET PlainTexts ==
        {Lit(<<"a", "b", "c", "d">>), Lit(<<"1", "2", "3", "4">>),
         Lit(<<"h", "i", " ", "y", "o", "u">>), Lit(<<"p", "@", "s", "s", "!">>),
         Lit(<<"a", "b", "c", "d", "e">>), Lit(<<"a", "=", "=", "=">>), Lit(<<"=", "=">>)}
      NonJsonTexts ==
        {Lit(<<"a", "b", "c">>), <<>>, Lit(<<"{", "i", "v", ":", "1", "}">>),
         Lit(<<"{", "QUOTE", "i", "v", "QUOTE", ":", "QUOTE", "x", "QUOTE", ",">>),
         Lit(<<"{", "}", " ", "x">>), Lit(<<"0", "1">>), Lit(<<"[", "1", ",", "]">>),
         Lit(<<"n", "u", "l">>), <<233>>}
  IN
  {Probe("plain", CodeUnits(p), Text(p), FALSE) : p \in Strings}
  \cup {Probe("plain", s, NULL, FALSE) : s \in PlainTexts}
  \cup {Probe("base64 of non-JSON", btoa(t).value, NULL, FALSE) : t \in NonJsonTexts}
  \cup {Probe("base64 of JSON", btoa(JsonStringify(j[1])).value, NULL, j[2]) :
          j \in JsonSamples}
  \cup {Probe("base64 of JSON", btoa(Lit(<<" ">>) \o JsonStringify(j[1]) \o <<10>>).value,
              NULL, j[2]) : j \in JsonSamples}
  \cup {Probe("encrypted", BundleOf(p, iv, c),
              encryptWithKey(Text(p), CloudKeyOf("uA"), iv), TRUE) :
          p \in {<<>>, <<"a">>, <<"a", "b">>, <<"LOCK", "e_acute">>}, iv \in IVs,
          c \in {0, 200}}
  \cup {Probe("encrypted, with whitespace", <<32>> \o BundleOf(<<"a">>, iv, 0) \o <<10>>,
              NULL, TRUE) : iv \in IVs}
  \cup {Probe("not base64", BundleOf(<<"a">>, iv, 0) \o tail, NULL, FALSE) :
          iv \in IVs, tail \in {Lit(<<"!">>), Lit(<<"A">>), <<233>>, <<55357, 56594>>}}
  \cup {Probe("not base64", Tail(BundleOf(<<"a">>, iv, 0)), NULL, FALSE) : iv \in IVs}

InitBundle == InitApp /\ cx \in Probes

\* The call isEncryptedBundle(value); for a value of the vault (a plain text
\* or an envelope) also the test on the value as the vault holds it.
BundleProbe ==
  /\ cx.phase = "probe"
  /\ cx' = [phase |-> "probed", cls |-> cx.cls, s |-> cx.s, abs |-> cx.abs,
            expect |-> cx.expect, out |-> isEncryptedBundleOfString(cx.s),
            absOut |-> IF cx.abs = NULL THEN cx.expect ELSE isEncryptedBundle(cx.abs)]
  /\ UNCHANGED <<authVars, keyVars, localVars, cloudVars, lockVars, panicVars,
                 errorToast, sealKey>>

SpecBundle == InitBundle /\ [][BundleProbe]_vars

(***************************************************************************)
(* The vault.                                                              *)
(***************************************************************************)
\* The entries the list shows, and what the edit form may submit for one.
Shown == Range(cloudPasswords) \cup Range(localPasswords)

DoSignIn == \E u \in Users : SignIn(u)
DoCloudKeyDerived == \E d \in derivs : CloudKeyDerived(d)
DoSubmitMasterPassword == \E m \in MasterPasswords : SubmitMasterPassword(m)
DoLocalKeyDerived == \E d \in derivs : LocalKeyDerived(d)
DoLoadLocalDone == \E l \in loads : LoadLocalDone(l)
DoPersistDone == \E t \in persists : PersistDone(t)
DoAddPassword == \E st \in {"local", "cloud"}, pw \in Typed : AddPassword(st, pw)
DoUpdatePassword ==
  \E e \in Shown : \E val \in Typed \cup {LockLike, Undefined, e.password} :
    UpdatePassword(e.id, val)
DoCloudWriteDone == \E res \in {"ok", "error"} : CloudWriteDone(res)
DoCloudLoadDone == \E l \in cloudLoads : CloudLoadDone(l)
DoPanicStart == \E clip \in {"ok", "throws"} : PanicStart(clip)
DoPanicSignOutDone == \E res \in {"ok", "rejects"} : PanicSignOutDone(res)

Next ==
  \/ DoSignIn
  \/ SignOut
  \/ DoCloudKeyDerived
  \/ DoSubmitMasterPassword
  \/ CancelMasterPassword
  \/ DoLocalKeyDerived
  \/ DoLoadLocalDone
  \/ DoPersistDone
  \/ DoAddPassword
  \/ DoUpdatePassword
  \/ DoCloudWriteDone
  \/ DoCloudLoadDone
  \/ Lock
  \/ Unlock
  \/ UnlockRejected
  \/ PageReload
  \/ ReopenTab
  \/ DoPanicStart
  \/ DoPanicSignOutDone

Spec == Init /\ [][Next]_vars

(***************************************************************************)
(* The lock state machine on the clock.                                    *)
(***************************************************************************)
TimeoutChoices == {1, DEFAULT_TIMEOUT_MIN}

DoSetAutoLockTimeout == \E m \in TimeoutChoices : SetAutoLockTimeout(m)
DoSetAutoLockEnabled == \E e \in BOOLEAN : SetAutoLockEnabled(e)

NextLock ==
  \/ Tick
  \/ Activity
  \/ IdleCheck
  \/ Lock
  \/ Unlock
  \/ UnlockRejected
  \/ DoSetAutoLockTimeout
  \/ DoSetAutoLockEnabled
  \/ DoSignIn
  \/ SignOut

SpecLock == Init /\ [][NextLock]_vars

(***************************************************************************)
(* The local vault: every action but those of the remote store.            *)
(***************************************************************************)
NextLocal ==
  \/ DoSignIn
  \/ SignOut
  \/ DoSubmitMasterPassword
  \/ CancelMasterPassword
  \/ DoLocalKeyDerived
  \/ DoLoadLocalDone
  \/ DoPersistDone
  \/ DoAddPassword
  \/ DoUpdatePassword
  \/ Lock
  \/ Unlock
  \/ PageReload
  \/ ReopenTab
  \/ DoPanicStart
  \/ DoPanicSignOutDone

SpecLocal == Init /\ [][NextLocal]_vars

(***************************************************************************)
(* The cloud vault: every action but those of the local key.               *)
(***************************************************************************)
NextCloud ==
  \/ DoSignIn
  \/ SignOut
  \/ DoCloudKeyDerived
  \/ DoAddPassword
  \/ DoUpdatePassword
  \/ DoCloudWriteDone
  \/ DoCloudLoadDone
  \/ Lock
  \/ Unlock
  \/ PageReload

SpecCloud == Init /\ [][NextCloud]_vars

(***************************************************************************)
(* The session key store with its consumers: derivations for both scopes,  *)
(* clearKeys, mounting and unmounting, on an empty vault.                  *)
(***************************************************************************)
NextKeys ==
  \/ DoSignIn
  \/ SignOut
  \/ DoCloudKeyDerived
  \/ DoSubmitMasterPassword
  \/ CancelMasterPassword
  \/ DoLocalKeyDerived
  \/ ClearKeys
  \/ Lock
  \/ Unlock
  \/ PageReload
  \/ ReopenTab

SpecKeys == Init /\ [][NextKeys]_vars

C3_CrossKeyFailure ==
  (cx.phase = "opened" /\ cx.in1 # cx.in2) => cx.out = Thrown

\* The cloud key and the local key made from the same token for the same
\* user id: decryption under the other one has thrown.
C3_Witness ==
  /\ cx.phase = "opened"
  /\ cx.in1 = [token |-> <<"uA">>, salt |-> <<"cloud-", "uA">>]
  /\ cx.in2 = [token |-> <<"uA">>, salt |-> <<"local-", "uA">>]
  /\ cx.out = Thrown

\* C4: a read of a persisted field never throws and has one of four
\* outcomes: the value itself when it is not an envelope; the locked sentinel
\* when it is an envelope and there is no key; the plaintext when it is the
\* envelope and the key is the one that made it; the wrong-key sentinel when
\* it is an envelope that does not open under the key.
C4_ReadTotal ==
  cx.phase = "read" =>
    /\ cx.rout.ok
    /\ ~isEncryptedBundle(cx.rv) => cx.rout = Ok(cx.rv)
    /\ (isEncryptedBundle(cx.rv) /\ cx.rk = NULL) => cx.rout = Ok(LOCKED_SENTINEL)
    /\ (cx.rv = cx.env /\ cx.rk = cx.k1) => cx.rout = Ok(Text(cx.p))
    /\ (isEncryptedBundle(cx.rv) /\ cx.rk # NULL /\ ~(cx.rv = cx.env /\ cx.rk = cx.k1))
         => cx.rout = Ok(WRONG_KEY_SENTINEL)

\* A read of an envelope under a key that did not make it gave the wrong-key
\* sentinel.
C4_Witness ==
  /\ cx.phase = "read"
  /\ cx.rv = cx.env
  /\ cx.rk # NULL
  /\ cx.rk # cx.k1
  /\ cx.rout = Ok(WRONG_KEY_SENTINEL)

(***************************************************************************)
(* Properties of the lock state machine (SpecLock).                        *)
(***************************************************************************)
\* C10: lock lifecycle.  An idle check runs only while a user is signed in,
\* the vault is unlocked and auto-lock is enabled, and it locks the vault if
\* and only if the time since the last recorded activity is at least the
\* timeout: the first check at or after the timeout locks, and no check
\* before it does.
C10_LockLifecycle ==
  [][IdleCheck =>
       /\ ~isLocked /\ autoLockEnabled /\ user # NoUser
       /\ isLocked' <=>
            (now - lastActivity >= autoLockTimeout * SECONDS_PER_MINUTE)]_vars

\* An activity event after the start kept the vault unlocked, and the idle
\* check locked it when the timeout had elapsed since that activity.
C10_Witness ==
  /\ isLocked
  /\ lockCause = "idle"
  /\ lastActivity > 0
  /\ now - lastActivity = autoLockTimeout * SECONDS_PER_MINUTE

\* C11: unlocking with a credential.  A handleUnlock whose credential check
\* fails leaves the lock state Locked and raises the incorrect-password error toast;
\* one whose check succeeds makes the state Unlocked and sets lastActivity to
\* the current time.
C11_UnlockWithCredential ==
  [][/\ UnlockRejected => (isLocked /\ isLocked' /\ errorToast' = TOAST_INCORRECT)
     /\ Unlock => (isLocked /\ ~isLocked' /\ lastActivity' = now')]_vars

\* A credential was rejected on the lock screen an idle period had brought up.
C11_Witness ==
  user # NoUser /\ isLocked /\ lockCause = "idle" /\ errorToast = TOAST_INCORRECT

(***************************************************************************)
(* Properties of the local vault (SpecLocal).                              *)
(***************************************************************************)
StoredList(store) == IF store.present THEN store.list ELSE <<>>

IsSentinel(v) == v \in {LOCKED_SENTINEL, WRONG_KEY_SENTINEL}

\* A password of an entry: a non-empty string that is not one of the sentinels.
IsPassword(v) == v.kind = "text" /\ Truthy(v) /\ ~IsSentinel(v)

\* C1: sentinel non-corruption.  No step replaces a stored envelope, in
\* local storage or in the remote table, by one of the two sentinel strings.
C1_SentinelNonCorruption ==
  [][/\ \A e \in Range(StoredList(localStore)), f \in Range(StoredList(localStore')) :
          (e.id = f.id /\ isEncryptedBundle(e.password)) => ~IsSentinel(f.password)
     /\ \A r \in Range(remote), q \in Range(remote') :
          (r.id = q.id /\ isEncryptedBundle(r.password)) => ~IsSentinel(q.password)]_vars

\* C5: idempotent persistence.  While a local key is held, a step leaves a
\* stored envelope as it is when the entry in memory is the value the
\* envelope holds, and never replaces a stored envelope by a string that is
\* not an envelope.
C5_IdempotentPersistence ==
  [][(keys.localKey # NULL /\ keys' = keys) =>
       \A e \in Range(StoredList(localStore)), f \in Range(StoredList(localStore')) :
         (e.id = f.id /\ isEncryptedBundle(e.password)) =>
           /\ isEncryptedBundle(f.password)
           /\ \A m \in Range(localPasswords') :
                (m.id = e.id /\ decryptWithKey(e.password, keys.localKey) = Ok(m.password))
                  => f.password = e.password]_vars

\* The entry of list that holds password v of entry m sealed under key k.
UpgradedIn(list, m, k) ==
  \E f \in Range(list) : f.id = m.id /\ decryptWithKey(f.password, k) = Ok(m.password)

\* C6: opportunistic upgrade.  (1) A write to local storage made without a
\* local key stores the entries as they are in memory.  (2) When a local key
\* becomes available and the list is loaded, the persist that runs then
\* produces, for every password in memory that is not an envelope, an
\* envelope that opens under that key to that password.  (3) A persist that
\* completes while a key is held stores exactly the list it produced.
C6_OpportunisticUpgrade ==
  [][/\ (keys'.localKey = NULL /\ localStore' # localStore /\ localStore'.present)
          => localStore'.list = localPasswords'
     /\ (keys.localKey = NULL /\ keys'.localKey # NULL /\ localLoaded'
         /\ IndexMounted(user', isLocked'))
          => \A m \in Range(localPasswords') :
               IsPassword(m.password) =>
                 \E t \in persists' \cup {StoredList(localStore')} :
                   UpgradedIn(t, m, keys'.localKey)
     /\ (keys'.localKey # NULL /\ persists' # persists /\ persists' \subseteq persists)
          => localStore' \in {Item(t) : t \in persists \ persists'}]_vars

\* C8: panic completeness.  When a call of panic() has ended (it returned
\* into the reload, or it threw, or it rejected), the key store holds no key,
\* the lock state is Locked, local storage holds no entry and no user is
\* signed in.
C8_PanicCompleteness ==
  [][(panicLog' # panicLog /\ panicLog'.end \in {"reloaded", "threw", "rejected"}) =>
       /\ keys' = NoKeys
       /\ isLocked'
       /\ StoredList(localStore') = <<>>
       /\ user' = NoUser]_vars

\* C9: panic is best-effort.  When a call of panic() has ended because the
\* clipboard write threw or the sign-out rejected, it has attempted every
\* step: lock, clipboard, erase, clear keys, sign out, reload.
C9_PanicBestEffort ==
  [][(panicLog' # panicLog /\ panicLog'.end \in {"threw", "rejected"}) =>
       panicLog'.steps = PanicSteps]_vars

(***************************************************************************)
(* Properties of the cloud vault (SpecCloud).                              *)
(***************************************************************************)
\* C7: no plaintext reaches the remote store.  Every password value that
\* addPassword or updatePassword has passed to the remote insert or update
\* is an envelope made with the cloud key held at that call.
C7_NoPlaintextToRemote ==
  (lastWrite # NULL /\ lastWrite.value # Undefined) =>
    /\ isEncryptedBundle(lastWrite.value)
    /\ lastWrite.value.ct.key = lastWrite.key

(***************************************************************************)
(* Properties of the master-password dialog (SpecLocal).                   *)
(***************************************************************************)
\* C12: a wrong master passphrase is rejected.  In unlock mode, no step
\* publishes a local key, or sets the unlock marker, for a passphrase other
\* than the one of the key under which the stored entries were encrypted.
C12_WrongPassphraseRejected ==
  [][(masterPwMode = "unlock" /\ sealKey # NULL) =>
       /\ (keys'.localKey # NULL /\ keys'.localKey # keys.localKey)
            => keys'.localKey.material = sealKey.material
       /\ (marker' /\ ~marker) => keys'.localKey = sealKey]_vars

(***************************************************************************)
(* Properties of lock() and of the activity events.                        *)
(***************************************************************************)
\* C13: manual lock() sets the lock state to Locked and leaves the session
\* key store as it was: the cloud key, the local key and the unlock marker
\* have the same values after lock() as before.  (SpecKeys)
C13_LockKeepsKeys ==
  [][Lock => (isLocked' /\ keys' = keys /\ marker' = marker)]_vars

\* Locked by lock() while both keys and the unlock marker are held.
C13_Witness ==
  /\ isLocked /\ lockCause = "lock"
  /\ keys.cloudKey # NULL /\ keys.localKey # NULL /\ marker

\* C14, as claimed: an activity event has no effect while Locked (the locked
\* flag and lastActivity stay as they were); while Unlocked it sets
\* lastActivity to the current time and changes nothing else of the lock
\* state.  (SpecLock)
C14_ActivityNoEffectWhileLocked ==
  [][Activity =>
       /\ isLocked' = isLocked
       /\ autoLockEnabled' = autoLockEnabled /\ autoLockTimeout' = autoLockTimeout
       /\ lastActivity' = IF isLocked THEN lastActivity ELSE now]_vars

\* C14, amended: an activity event never changes the locked flag; Locked or
\* Unlocked, it sets lastActivity to the current time and changes nothing else
\* of the lock state, the session or the keys.  (SpecLock)
C14_ActivityRefreshes ==
  [][Activity =>
       /\ isLocked' = isLocked
       /\ autoLockEnabled' = autoLockEnabled /\ autoLockTimeout' = autoLockTimeout
       /\ lastActivity' = now
       /\ UNCHANGED <<authVars, keyVars, lockCause, now>>]_vars

\* An activity event arrived while the idle check had locked the vault: only
\* then lastActivity is the current time in a state locked for idleness.
C14_Witness ==
  user # NoUser /\ isLocked /\ lockCause = "idle" /\ lastActivity = now

(***************************************************************************)
(* Scenarios of the local vault across sessions and identities (SpecLocal).*)
(***************************************************************************)
\* C15: lock and re-unlock.  After a value was encrypted under a local key
\* and stored, a step that empties the key store makes the read of each
\* stored envelope show the locked sentinel; and once the key the envelopes
\* were sealed with is derived again, the read shows the plaintexts: no entry
\* shows a sentinel.
C15_LockReunlock ==
  [][/\ (keys.localKey # NULL /\ keys'.localKey = NULL /\ localLoaded')
          => \A e \in Range(StoredList(localStore)) :
               isEncryptedBundle(e.password) =>
                 \E m \in Range(localPasswords') :
                   m.id = e.id /\ m.password = LOCKED_SENTINEL
     /\ (/\ keys.localKey = NULL /\ sealKey # NULL /\ keys'.localKey = sealKey
         /\ localLoaded' /\ loads' = {})
          => \A m \in Range(localPasswords') : ~IsSentinel(m.password)]_vars

\* The identity a local key was derived for: the userId of its salt label.
ScopeOf(key) == key.salt[Len(key.salt)]

\* C16: per-identity local vaults are independent.  When the stored entries
\* were sealed under the local key of one identity and a step publishes the
\* local key of another identity (another user id, or the anonymous
\* placeholder), loading and saving with it, the store still holds the
\* entries as envelopes under the first identity's key.
C16_PerIdentityVaults ==
  [][(/\ sealKey # NULL
      /\ keys'.localKey # NULL /\ keys'.localKey # keys.localKey
      /\ ScopeOf(keys'.localKey) # ScopeOf(sealKey))
       => /\ localStore'.present
          /\ \E e \in Range(localStore'.list) :
               isEncryptedBundle(e.password) /\ e.password.ct.key = sealKey]_vars

(***************************************************************************)
(* Properties of the remote writes (SpecCloud).                            *)
(***************************************************************************)
\* C17: write failures are surfaced.  When the remote store rejects an insert
\* or an update, the addPassword / updatePassword call rejects (it does not
\* resolve as after a success), no further remote write is made for it, and
\* the entry is not stored in the local list or in local storage.
C17_WriteFailuresSurfaced ==
  [][CloudWriteDone("error") =>
       /\ lastWrite'.result = "rejected"
       /\ cloudOp' = NULL
       /\ localPasswords' = localPasswords
       /\ localStore' = localStore /\ persists' = persists]_vars

(***************************************************************************)
(* Properties of the session key store (SpecKeys).                         *)
(***************************************************************************)
\* C18: concurrent derivations for different scopes publish independently.
\* The publish that ends setCloudKey sets the cloud key and leaves the local
\* key as it is, and the publish that ends setLocalKey sets the local key and
\* leaves the cloud key as it is, whichever derivation finishes first; so
\* after both the store holds both keys.
C18_IndependentPublish ==
  [][\A d \in derivs :
       /\ CloudKeyDerived(d) => (keys'.cloudKey = d.key /\ keys'.localKey = keys.localKey)
       /\ LocalKeyDerived(d) => (keys'.localKey = d.key /\ keys'.cloudKey = keys.cloudKey)]_vars

\* Both derivations have completed, one of them while the other was still in
\* flight, and the store holds both keys.
C18_Witness ==
  raced /\ derivs = {} /\ keys.cloudKey # NULL /\ keys.localKey # NULL

\* The consumers of useVaultKey that are mounted.
LiveConsumers == IF IndexMounted(user, isLocked) THEN CONSUMERS ELSE 0

\* C19: observers can be deregistered.  The observer list holds exactly the
\* live consumers: a consumer that was unmounted is no longer in _setters.
C19_ObserversAreLive ==
  setters = LiveConsumers

\* C20: the postcondition of clearKeys().  The step leaves both keys absent
\* and the unlock marker removed, and the state passed to the registered
\* setters is that empty state; and the keys stay absent until a new
\* setCloudKey / setLocalKey call is made: while no key is held and every
\* derivation in flight was started before the clearKeys call, no step makes a
\* key present.
C20_ClearPostcondition ==
  [][/\ ClearKeys => (keys' = NoKeys /\ ~marker' /\ hookState' = NoKeys)
     /\ (keys = NoKeys /\ derivs # {} /\ \A d \in derivs : d.preClear)
          => keys' = NoKeys]_vars

(***************************************************************************)
(* Properties of isEncryptedBundle (SpecBundle).                           *)
(***************************************************************************)
\* C21: legacy detection.  isEncryptedBundle never throws; it returns true
\* for a string that base64-decodes to JSON whose 'iv' and 'ct' fields are
\* both strings, so for every output of encryptWithKey, and false for every
\* other string: plain text, strings that are not base64, base64 of texts
\* that are not JSON, and JSON without the two string fields.  The test the
\* vault makes on its values (envelope or not) agrees with it.
C21_LegacyDetection ==
  cx.phase = "probed" => (cx.out = Ok(cx.expect) /\ cx.absOut = cx.expect)

\* An output of encryptWithKey for a multi-byte plaintext was recognised.
C21_Witness ==
  /\ cx.phase = "probed"
  /\ cx.cls = "encrypted"
  /\ cx.abs.ct.bytes = TextEncode(<<"LOCK", "e_acute">>)
  /\ cx.out = Ok(TRUE)

\* C22: publish-then-notify is synchronous and ordered.  Each completion of
\* setCloudKey and of setLocalKey, and each clearKeys, changes the store and
\* passes the new state to the registered setters in the same step; so after
\* every step that changes the store, the state the setters last received is
\* the state of the store.  (SpecKeys)
C22_PublishThenNotify ==
  [][(keys' # keys \/ ClearKeys \/ DoCloudKeyDerived \/ DoLocalKeyDerived)
       => hookState' = keys']_vars

\* clearKeys() was called after a local key had been published and while a
\* derivation was in flight, and the setters received the empty state.
C22_Witness ==
  /\ keys = NoKeys
  /\ hookState = NoKeys
  /\ setupDone
  /\ \E d \in derivs : d.preClear

(***************************************************************************)
(* Properties of the record adapter with respect to the key store.         *)
(***************************************************************************)
\* C23: the record adapter never works with a stale key.  Every cloud load
\* that starts, every cloud write that starts and every local load that
\* starts uses the key the session key store holds at that moment.
\* (SpecCloud)
C23_NoStaleKey ==
  [][/\ \A l \in cloudLoads' \ cloudLoads : l.key = keys'.cloudKey
     /\ (cloudOp = NULL /\ cloudOp' # NULL) => cloudOp'.key = keys'.cloudKey
     /\ \A l \in loads' \ loads : l = LoadResult(localStore, keys'.localKey)]_vars

(***************************************************************************)
(* Properties of the lock screen.                                          *)
(***************************************************************************)
\* The entries the application would load for user u: the rows of u in the
\* remote table and the entries in local storage.
VaultEntries(u, rows, store) ==
  {r \in Range(rows) : r.owner = u} \cup Range(StoredList(store))

\* The keys the store holds and those of the derivations in flight.
KeysHeldOrDerived(ks, ds) ==
  ({ks.cloudKey, ks.localKey} \cup {d.key : d \in ds}) \ {NULL}

\* C24: the lock cannot be bypassed.  A step that takes the application from
\* Locked, with a user signed in, to Unlocked is a handleUnlock whose
\* credential check succeeded; any other such step (the lock screen's sign
\* out, a page reload) leaves no key, held or being derived, that decrypts an
\* entry of the vault.  (SpecLocal)
C24_LockNotBypassed ==
  [][(user # NoUser /\ isLocked /\ ~isLocked' /\ ~Unlock) =>
       ~\E k \in KeysHeldOrDerived(keys', derivs'),
           e \in VaultEntries(user', remote', localStore') :
          decryptWithKey(e.password, k).ok]_vars

(***************************************************************************)
(* Properties of the cloud key with respect to the signed-in user.         *)
(***************************************************************************)
\* C25: the published cloud key belongs to the current user.  Whenever a
\* user is signed in and no setCloudKey derivation is in flight, the store
\* holds the cloud key derived from that user's id; and every envelope in a
\* remote row was made with the cloud key of the row's owner.  (SpecCloud)
C25_CloudKeyOfCurrentUser ==
  /\ (user # NoUser /\ InFlight(derivs, "cloud") = 0) => keys.cloudKey = CloudKeyOf(user)
  /\ \A r \in Range(remote) :
       isEncryptedBundle(r.password) => r.password.ct.key = CloudKeyOf(r.owner)

(***************************************************************************)
(* Properties of clearKeys with derivations in flight (SpecKeys).          *)
(***************************************************************************)
\* C26: clearKeys() wins over a derivation in flight.  When a setCloudKey or
\* setLocalKey call that was made before a clearKeys() call completes after
\* it, the store holds no key for the scope of that call afterwards, and the
\* unlock marker is absent.
C26_ClearWins ==
  [][\A d \in derivs :
       (d.preClear /\ (CloudKeyDerived(d) \/ LocalKeyDerived(d))) =>
         /\ d.scope = "cloud" => keys'.cloudKey = NULL
         /\ d.scope = "local" => keys'.localKey = NULL
         /\ ~marker']_vars

(***************************************************************************)
(* Properties of the local persistence under concurrency (SpecLocal).      *)
(***************************************************************************)
\* C27: panic's erase is final.  From the moment panic() has removed the
\* entry list from local storage until it reloads the page, and while the
\* lock screen it brought up is in place of Index (so that no new persist can
\* start), no step writes to local storage: a persist that was awaiting
\* encryption when panic() ran does not store its list.
C27_EraseIsFinal ==
  [][(panicPc = "signOut" /\ user # NoUser /\ lockCause = "panic")
       => (localStore = NoItem /\ StoredList(localStore') = <<>>)]_vars

\* The stored list is what a persist run makes of the list mem under key:
\* entry by entry the value itself, or an envelope of it under the key where
\* the persist effect encrypts.
Corresponds(store, mem, key) ==
  /\ store.present
  /\ Len(store.list) = Len(mem)
  /\ \A i \in DOMAIN mem :
       /\ store.list[i].id = mem[i].id
       /\ IF PersistEncrypts(mem[i].password, key)
            THEN decryptWithKey(store.list[i].password, key) = Ok(mem[i].password)
            ELSE store.list[i].password = mem[i].password

\* C28: local persistence converges to the latest state.  When a persist run
\* completes and no other is in flight, with the list loaded and Index
\* mounted, local storage holds the list that is in memory, sealed as the
\* persist effect seals it under the local key now held.
C28_PersistConverges ==
  [][\A t \in persists :
       (/\ PersistDone(t)
        /\ persists' = {}
        /\ localLoaded /\ loads = {}
        /\ IndexMounted(user, isLocked))
         => Corresponds(localStore', localPasswords', keys'.localKey)]_vars

(***************************************************************************)
(* Properties of the cloud entries across a sign-out (SpecCloud).          *)
(***************************************************************************)
\* C29: no cloud entries after sign-out.  Whenever no user is signed in and
\* no derivation, cloud load or cloud write is in flight, the in-memory list
\* of cloud entries is empty.
C29_NoCloudEntriesSignedOut ==
  (user = NoUser /\ derivs = {} /\ cloudLoads = {} /\ cloudOp = NULL)
    => cloudPasswords = <<>>

(***************************************************************************)
(* Properties of the unlock marker (SpecLocal).                            *)
(***************************************************************************)
\* C30: the unlock marker implies a key.  In every reachable state, the
\* 'local_vault_unlocked' marker is set only if the session key store holds
\* a local key.
C30_MarkerImpliesKey ==
  marker => keys.localKey # NULL

====
